---- MODULE Spec2Model ----
(***************************************************************************)
(* Lab_Sklearn_Magic: the notebook's cells as a sequential program.        *)
(*                                                                         *)
(*   cell 1  read the CSV and shuffle the rows           (the initial state)*)
(*   cell 2  drop columns, split X / Y, build the folds  (Prep)            *)
(*   cell 3  baseline grid search, print best_1          (FitAndScore*,    *)
(*   cell 5  scaled grid search, print best_2             SelectBest)      *)
(*   cell 7  polynomial grid search, print best_3                          *)
(*   cells 4, 6, 8  display the best estimator           (ShowBest)        *)
(*   cell 9  results = [best_1, best_2, best_3]          (Report)          *)
(*                                                                         *)
(* Spec runs the cells top to bottom; SpecOrder runs the three search      *)
(* cells in any order, as a notebook allows.                               *)
(*                                                                         *)
(* The library calls are modelled by what the library release the notebook *)
(* imports (sklearn.cross_validation, sklearn.grid_search) does.  Scores   *)
(* are exact rationals [num, den]; floating-point rounding is not modelled.*)
(* The optimiser inside LogisticRegression is not modelled: the decision   *)
(* values of a fitted estimator are a fixed but arbitrary function of the  *)
(* configuration, the fold and the row, selected by the variable `seed`.   *)
(***************************************************************************)
EXTENDS Integers, Sequences, FiniteSets, TLC

\* ------------------------------------------------------------------ bounds
MaxRows == 8
MaxOdd == 1
MaxSeed == 1
DecisionLevels == 3
MaxFoldArg == 6

\* ------------------------------------------------------- program constants
NFolds == 4

AllColumns ==
  {"revenue", "outcalls", "incalls", "months", "eqpdays", "webcap",
   "marryyes", "travel", "pcown", "creditcd", "retcalls", "churndep"}

\* data.columns, in the order of the file
ColumnOrder ==
  <<"revenue", "outcalls", "incalls", "months", "eqpdays", "webcap",
    "marryyes", "travel", "pcown", "creditcd", "retcalls", "churndep">>

dropvar_list == <<"incalls", "creditcd", "marryyes", "travel", "pcown">>

TargetColumn == "churndep"

\* [10**i for i in range(-3, 3)], each value C = 10^e written as its exponent e
CRange == <<-3, -2, -1, 0, 1, 2>>

\* The parameter grids, as the dict literals list them: <<key, values>>
param_grid_lr ==
  << <<"C", CRange>>, <<"penalty", <<"l1", "l2">> >> >>

parameters_scaler ==
  << <<"lr__C", CRange>>, <<"lr__penalty", <<"l1", "l2">> >> >>

\* the polynomial grid without its penalty list
parameters_poly_no_penalty ==
  << <<"polyfeat__degree", <<1, 2>> >>,
     <<"polyfeat__interaction_only", <<TRUE, FALSE>> >>,
     <<"lr__C", CRange>> >>

parameters_poly ==
  << <<"polyfeat__degree", <<1, 2>> >>,
     <<"polyfeat__interaction_only", <<TRUE, FALSE>> >>,
     <<"lr__C", CRange>>,
     <<"lr__penalty", <<"l1", "l2">> >> >>

\* The three searches in cell order; steps names each pipeline's stages.
Variants == 1..3

ParamGridOf(v) ==
  CASE v = 1 -> param_grid_lr
    [] v = 2 -> parameters_scaler
    [] v = 3 -> parameters_poly

StepsOf(v) ==
  CASE v = 1 -> <<"lr">>
    [] v = 2 -> <<"scaler", "lr">>
    [] v = 3 -> <<"polyfeat", "scaler", "lr">>

\* ------------------------------------------------------------ ParameterGrid
\* sorted(p.items()): the keys in string order
KeyOrder ==
  <<"C", "lr__C", "lr__penalty", "penalty",
    "polyfeat__degree", "polyfeat__interaction_only">>

RECURSIVE SortedItemsFrom(_, _)
SortedItemsFrom(grid, k) ==
  IF k > Len(KeyOrder) THEN <<>>
  ELSE LET here == SelectSeq(grid, LAMBDA it : it[1] = KeyOrder[k])
       IN  here \o SortedItemsFrom(grid, k + 1)

SortedItems(grid) == SortedItemsFrom(grid, 1)

\* FlatMap that stops one value short of the end of the list
RECURSIVE FlatMapShort(_, _)
FlatMapShort(prefixes, values) ==
  IF prefixes = <<>> THEN <<>>
  ELSE [j \in 1..(Len(values) - 1) |-> Append(Head(prefixes), values[j])]
         \o FlatMapShort(Tail(prefixes), values)

RECURSIVE FlatMap(_, _)
FlatMap(prefixes, values) ==
  IF prefixes = <<>> THEN <<>>
  ELSE [j \in 1..Len(values) |-> Append(Head(prefixes), values[j])]
         \o FlatMap(Tail(prefixes), values)

\* itertools.product(*values): the last key varies fastest
RECURSIVE Product(_, _)
Product(items, k) ==
  IF k = 0 THEN << <<>> >>
  ELSE FlatMap(Product(items, k - 1), items[k][2])

\* One grid point: the sorted keys and, in the same order, their values
ParameterGrid(grid) ==
  LET items == SortedItems(grid)
      keys  == [j \in 1..Len(items) |-> items[j][1]]
      combos == Product(items, Len(items))
  IN  [g \in 1..Len(combos) |-> [keys |-> keys, vals |-> combos[g]]]

GridOf(v) == ParameterGrid(ParamGridOf(v))

\* ------------------------------------------------------------------- KFold
\* the check without its comparison to the number of rows
KFoldValidNoRowCheck(n, k) == k > 1

\* _BaseKFold.__init__: n_folds <= 1 and n_folds > n raise ValueError
KFoldValid(n, k) == k > 1 /\ k <= n

\* FoldSize without the remainder rows handed to the first n % n_folds folds
FoldSizeNoRemainder(n, k, f) == n \div k

\* fold_sizes = (n // n_folds) * ones; fold_sizes[:n % n_folds] += 1
FoldSize(n, k, f) == (n \div k) + (IF f <= n % k THEN 1 ELSE 0)

\* current: the first index of fold f (folds are numbered from 1, rows from 0)
RECURSIVE FoldStart(_, _, _)
FoldStart(n, k, f) ==
  IF f = 1 THEN 0 ELSE FoldStart(n, k, f - 1) + FoldSize(n, k, f - 1)

TestIndices(n, k, f) ==
  FoldStart(n, k, f) .. (FoldStart(n, k, f) + FoldSize(n, k, f) - 1)

\* train = the rows whose test mask is False
TrainIndices(n, k, f) == (0 .. (n - 1)) \ TestIndices(n, k, f)

KFold(n, k) ==
  [f \in 1..k |-> [train |-> TrainIndices(n, k, f), test |-> TestIndices(n, k, f)]]

\* ------------------------------------------------------------------- state
VARIABLES
  columns,      \* data.columns after read_csv
  target,       \* data['churndep'] in the shuffled row order (rows from 0)
  seed,         \* selects the fitted estimators' decision values
  n_folds,      \* the n_folds argument of KFold
  pc,           \* the cell about to run
  X,            \* the feature table: its columns in order and its row index
  Y,            \* the target vector
  kfolds,       \* the fold assignment
  variant,      \* the search in progress
  gi,           \* the grid point being evaluated
  fi,           \* the fold being evaluated
  out,          \* the (score, n_test_samples, parameters) of each fit so far
  grid_scores,  \* grid_scores_ of each finished search
  best_score,   \* best_1, best_2, best_3
  best_params,  \* best_params_ of each finished search
  stdout,       \* what the cells printed or displayed
  results,      \* the results array of the last cell
  fitted,       \* the estimator fitted last: its stages and the rows they saw
  imported,     \* the names the import statements run so far have bound
  error         \* the exception that stopped the run

vars ==
  <<columns, target, seed, n_folds, pc, X, Y, kfolds, variant, gi, fi, out,
    grid_scores, best_score, best_params, stdout, results, fitted,
    imported, error>>

TargetValues == {0, 1, 2}

Rows(n) == 0 .. (n - 1)

\* The datasets cell 1 can leave behind: any row order, a column possibly
\* missing from the file, at most MaxOdd rows with a third target value.
Datasets ==
  [cols : {AllColumns} \cup {AllColumns \ {c} : c \in {"incalls", TargetColumn}},
   tgt  : UNION {{t \in [Rows(n) -> TargetValues] :
                    Cardinality({i \in Rows(n) : t[i] = 2}) <= MaxOdd} : n \in 0..MaxRows}]

NoScores == [v \in Variants |-> <<>>]

\* the import statements of cell 1
Cell1Imports == {"os", "pd", "LogisticRegression", "GridSearchCV", "KFold", "plt"}

\* the import statements at the top of each search's cell
Imports(v) ==
  CASE v = 1 -> {}
    [] v = 2 -> {"Pipeline", "StandardScaler"}
    [] v = 3 -> {"PolynomialFeatures"}

\* every search cell importing the classes it names
UsesOwnImportsOnly(v) == Imports(v)

\* the imported names each search's cell refers to
Uses(v) ==
  CASE v = 1 -> {"LogisticRegression", "GridSearchCV"}
    [] v = 2 -> {"StandardScaler", "LogisticRegression", "Pipeline", "GridSearchCV"}
    [] v = 3 -> {"PolynomialFeatures", "StandardScaler", "LogisticRegression",
                 "Pipeline", "GridSearchCV"}

InitWith(d, s, k) ==
  /\ columns = d.cols
  /\ target = d.tgt
  /\ seed = s
  /\ n_folds = k
  /\ pc = "prep"
  /\ X = [columns |-> <<>>, index |-> {}]
  /\ Y = <<>>
  /\ kfolds = <<>>
  /\ variant = 0
  /\ gi = 0
  /\ fi = 0
  /\ out = <<>>
  /\ grid_scores = NoScores
  /\ best_score = NoScores
  /\ best_params = NoScores
  /\ stdout = <<>>
  /\ results = <<>>
  /\ fitted = <<>>
  /\ imported = Cell1Imports
  /\ error = ""

Init == \E d \in Datasets, s \in 0..MaxSeed : InitWith(d, s, NFolds)

Range(s) == {s[j] : j \in DOMAIN s}

\* ------------------------------------------------------------------ cell 2
\* DataFrame.drop raises when a label is not a column (KeyError or
\* ValueError, by pandas release); KFold raises ValueError.
DropErrors == {"KeyError", "ValueError"}

Raise(e) ==
  /\ pc' = "error"
  /\ error' = e

\* DataFrame.drop(labels, 1) without its last label
DropAllButLast(cols, labels) == cols \ Range(SubSeq(labels, 1, Len(labels) - 1))

\* DataFrame.drop(labels, 1): the columns left, the rows untouched
Drop(cols, labels) == cols \ Range(labels)

\* the columns of a frame in the order data.columns lists them
InOrder(cols) == SelectSeq(ColumnOrder, LAMBDA c : c \in cols)

\* cell 2, followed by the cell of search `first`
PrepThen(first) ==
  /\ pc = "prep"
  /\ LET data_subset == Drop(columns, dropvar_list)
         n == Cardinality(DOMAIN target)
     IN  IF ~ (Range(dropvar_list) \subseteq columns) \/ TargetColumn \notin data_subset
         THEN /\ \E e \in DropErrors : Raise(e)
              /\ UNCHANGED <<X, Y, kfolds, variant, gi, fi>>
         ELSE /\ X' = [columns |-> InOrder(Drop(data_subset, <<TargetColumn>>)),
                        index |-> DOMAIN target]
              /\ Y' = target
              /\ IF KFoldValid(n, n_folds)
                 THEN /\ kfolds' = KFold(n, n_folds)
                      /\ pc' = "search"
                      /\ variant' = first
                      /\ gi' = 1
                      /\ fi' = 1
                      /\ error' = error
                 ELSE /\ Raise("ValueError")
                      /\ UNCHANGED <<kfolds, variant, gi, fi>>
  /\ UNCHANGED <<columns, target, seed, n_folds, out, grid_scores, best_score,
                 best_params, stdout, results, fitted, imported>>

Prep == PrepThen(1)

\* --------------------------------------------------------------- rationals
RECURSIVE Gcd(_, _)
Gcd(a, b) == IF b = 0 THEN a ELSE Gcd(b, a % b)

Rat(n, d) == LET g == Gcd(n, d) IN [num |-> n \div g, den |-> d \div g]

RatAdd(a, b) == Rat(a.num * b.den + b.num * a.den, a.den * b.den)

RatTimes(a, m) == Rat(a.num * m, a.den)

RatOver(a, m) == Rat(a.num, a.den * m)

RatLess(a, b) == a.num * b.den < b.num * a.den

RatLeq(a, b) == a.num * b.den <= b.num * a.den

Zero == [num |-> 0, den |-> 1]

One == [num |-> 1, den |-> 1]

\* ------------------------------------------------------- one fit and score
\* estimator.decision_function on a validation row: the value the estimator
\* of search v, fitted at grid point g on the training rows of fold f, gives
\* row i.  Any fixed function serves; seed selects one.
DecisionFunction(v, g, f, i) ==
  (((seed + 2 * v + 1) * (i + 1) + (g * g + f) * (i + 2) + g * v) % 53)
    % DecisionLevels

Classes(rows) == {Y[i] : i \in rows}

\* LogisticRegression.fit (liblinear) needs at least two classes
FitRaises(train) == Cardinality(Classes(train)) < 2

\* The roc_auc scorer: type_of_target(y_test) must be binary, y_test must
\* hold both classes, the decision values must be one column (a binary
\* estimator) and the labels must be {0, 1} since pos_label is not given.
ScoreRaises(train, test) ==
  \/ Cardinality(Classes(test)) > 2
  \/ Cardinality(Classes(test)) # 2
  \/ Cardinality(Classes(train)) > 2
  \/ Classes(test) # {0, 1}

\* roc_auc_score: the area under the ROC curve, which is the share of
\* (positive, negative) pairs ranked in order, a tie counting one half
RocAuc(test, dec) ==
  LET pos == {i \in test : Y[i] = 1}
      neg == {i \in test : Y[i] = 0}
      ordered == {pq \in pos \X neg : dec[pq[1]] > dec[pq[2]]}
      tied    == {pq \in pos \X neg : dec[pq[1]] = dec[pq[2]]}
  IN  Rat(2 * Cardinality(ordered) + Cardinality(tied),
          2 * Cardinality(pos) * Cardinality(neg))

\* _fit_and_score with error_score set to a number and applied to the
\* scorer too: a fit or score that raises counts as the score 0
FitAndScoreErrorScore(v, g, f) ==
  [raised |-> "",
   score |-> IF FitRaises(kfolds[f].train) \/ ScoreRaises(kfolds[f].train, kfolds[f].test)
             THEN Zero
             ELSE RocAuc(kfolds[f].test, [i \in kfolds[f].test |-> DecisionFunction(v, g, f, i)]),
   n_test_samples |-> Cardinality(kfolds[f].test),
   parameters |-> GridOf(v)[g]]

\* _fit_and_score with return_parameters=True and error_score='raise': the
\* exception of fit is re-raised, the scorer runs outside the try block
FitAndScoreResult(v, g, f) ==
  IF FitRaises(kfolds[f].train) \/ ScoreRaises(kfolds[f].train, kfolds[f].test)
  THEN [raised |-> "ValueError"]
  ELSE [raised |-> "",
        score |-> RocAuc(kfolds[f].test, [i \in kfolds[f].test |-> DecisionFunction(v, g, f, i)]),
        n_test_samples |-> Cardinality(kfolds[f].test),
        parameters |-> GridOf(v)[g]]

\* ------------------------------------------------------------ the pipelines
\* estimator.set_params(**parameters): the value a grid point gives a
\* parameter, or the constructor's default when the grid does not list it
ParamOr(p, key, default) ==
  IF \E j \in 1..Len(p.keys) : p.keys[j] = key
  THEN p.vals[CHOOSE j \in 1..Len(p.keys) : p.keys[j] = key]
  ELSE default

\* itertools.combinations (repl FALSE) or combinations_with_replacement
\* (repl TRUE) of the feature numbers lo..n taken d at a time, in order
RECURSIVE CombinationsFrom(_, _, _, _)
CombinationsFrom(lo, n, d, repl) ==
  IF d = 0 THEN << <<>> >>
  ELSE IF lo > n THEN <<>>
  ELSE LET rest == CombinationsFrom(IF repl THEN lo ELSE lo + 1, n, d - 1, repl)
       IN  [j \in 1..Len(rest) |-> <<lo>> \o rest[j]]
             \o CombinationsFrom(lo + 1, n, d, repl)

\* chain(comb(range(n_features), i) for i in range(start, degree + 1))
RECURSIVE CombinationsUpTo(_, _, _, _)
CombinationsUpTo(n, d, degree, repl) ==
  IF d > degree THEN <<>>
  ELSE CombinationsFrom(1, n, d, repl) \o CombinationsUpTo(n, d + 1, degree, repl)

\* the product of columns, each column itself a product of columns of X
\* written as the sequence of their names
RECURSIVE Times(_)
Times(terms) ==
  IF terms = <<>> THEN <<>> ELSE Head(terms) \o Times(Tail(terms))

\* PolynomialFeatures whose include_bias is off
PolynomialFeaturesNoBias(features, degree, interaction_only) ==
  LET combos == CombinationsUpTo(Len(features), 1, degree, ~ interaction_only)
  IN  [c \in 1..Len(combos) |->
         Times([k \in 1..Len(combos[c]) |-> features[combos[c][k]]])]

\* PolynomialFeatures(degree, interaction_only, include_bias=True).transform:
\* one output column per combination, the product of the input columns it
\* names; the empty combination is the bias column of ones
PolynomialFeatures(features, degree, interaction_only) ==
  LET combos == CombinationsUpTo(Len(features), 0, degree, ~ interaction_only)
  IN  [c \in 1..Len(combos) |->
         Times([k \in 1..Len(combos[c]) |-> features[combos[c][k]]])]

\* the columns a fitted stage hands on, given the columns it receives
StageOutput(name, p, features) ==
  IF name = "polyfeat"
  THEN PolynomialFeatures(features, ParamOr(p, "polyfeat__degree", 2),
                          ParamOr(p, "polyfeat__interaction_only", FALSE))
  ELSE features

\* a pipeline whose transformers are fitted on the scored rows as well
RECURSIVE PipelineFitLeaky(_, _, _, _, _)
PipelineFitLeaky(steps, p, rows, test, features) ==
  IF steps = <<>> THEN <<>>
  ELSE LET last == Len(steps) = 1
           outp == IF last THEN features ELSE StageOutput(Head(steps), p, features)
       IN  <<[name |-> Head(steps),
              fit_rows |-> IF last THEN rows ELSE rows \cup test,
              transformed |-> IF last THEN {} ELSE test,
              predicted |-> IF last THEN test ELSE {},
              features_in |-> features,
              features_out |-> outp]>>
             \o PipelineFitLeaky(Tail(steps), p, rows, test, outp)

\* Pipeline.fit on the rows `rows`, then (when test is not empty) the
\* scorer's pipeline.decision_function on the rows `test`: every stage but
\* the last is fit_transform-ed on `rows` and later transforms `test`; the
\* last stage is fitted on `rows` and gives the decision values of `test`
RECURSIVE PipelineFit(_, _, _, _, _)
PipelineFit(steps, p, rows, test, features) ==
  IF steps = <<>> THEN <<>>
  ELSE LET last == Len(steps) = 1
           outp == IF last THEN features ELSE StageOutput(Head(steps), p, features)
       IN  <<[name |-> Head(steps),
              fit_rows |-> rows,
              transformed |-> IF last THEN {} ELSE test,
              predicted |-> IF last THEN test ELSE {},
              features_in |-> features,
              features_out |-> outp]>>
             \o PipelineFit(Tail(steps), p, rows, test, outp)

\* the columns of X, each a product of one column
RawFeatures == [j \in 1..Len(X.columns) |-> <<X.columns[j]>>]

\* _fit_and_score: clone the estimator, set the grid point's parameters,
\* fit on X[train], score on X[test]
FittedOnFold(v, g, f) ==
  [variant |-> v, grid_point |-> g, fold |-> f,
   stages |-> PipelineFit(StepsOf(v), GridOf(v)[g], kfolds[f].train,
                          kfolds[f].test, RawFeatures)]

\* refit=True: the winning grid point fitted once more, on every row
Refitted(v, g) ==
  [variant |-> v, grid_point |-> g, fold |-> 0,
   stages |-> PipelineFit(StepsOf(v), GridOf(v)[g], X.index, {}, RawFeatures)]

NumFolds == Len(kfolds)

\* one step of a search cell: for parameters in parameter_iterable for
\* train, test in cv.  The first step of a cell runs the cell's lines above
\* the fit as well: its imports, then the construction of the estimator,
\* which raises NameError when it names a class nothing has imported.
FitAndScore ==
  /\ pc = "search"
  /\ LET names == IF gi = 1 /\ fi = 1
                  THEN imported \cup Imports(variant)
                  ELSE imported
         r == FitAndScoreResult(variant, gi, fi)
     IN  /\ imported' = names
         /\ IF ~ (Uses(variant) \subseteq names)
            THEN /\ Raise("NameError")
                 /\ UNCHANGED <<gi, fi, out, fitted>>
            ELSE IF r.raised # ""
            THEN /\ Raise(r.raised)
                 /\ UNCHANGED <<gi, fi, out, fitted>>
            ELSE
              /\ out' = Append(out, r)
              /\ fitted' = FittedOnFold(variant, gi, fi)
              /\ error' = error
              /\ IF fi < NumFolds
                 THEN /\ fi' = fi + 1
                      /\ UNCHANGED <<gi, pc>>
                 ELSE IF gi < Len(GridOf(variant))
                 THEN /\ fi' = 1
                      /\ gi' = gi + 1
                      /\ pc' = pc
                 ELSE /\ pc' = "select"
                      /\ UNCHANGED <<gi, fi>>
  /\ UNCHANGED <<columns, target, seed, n_folds, X, Y, kfolds, variant,
                 grid_scores, best_score, best_params, stdout, results>>

\* ------------------------------------------------------ the end of fit()
\* iid=True: each fold's score weighs as its number of validation rows
RECURSIVE WeightedSum(_)
WeightedSum(fits) ==
  IF fits = <<>> THEN Zero
  ELSE RatAdd(RatTimes(Head(fits).score, Head(fits).n_test_samples),
              WeightedSum(Tail(fits)))

RECURSIVE TestSamples(_)
TestSamples(fits) ==
  IF fits = <<>> THEN 0 ELSE Head(fits).n_test_samples + TestSamples(Tail(fits))

MeanScore(fits) == RatOver(WeightedSum(fits), TestSamples(fits))

\* for grid_start in range(0, n_fits, n_folds): one _CVScoreTuple each
GridScores(o, k) ==
  [g \in 1..(Len(o) \div k) |->
     LET fits == SubSeq(o, (g - 1) * k + 1, g * k)
     IN  [parameters |-> fits[1].parameters,
          mean_validation_score |-> MeanScore(fits),
          cv_validation_scores |-> [j \in 1..k |-> fits[j].score]]]

\* the winner taken from the wrong end of the sorted list
BestIndexAscending(gs) ==
  CHOOSE b \in 1..Len(gs) :
    /\ \A j \in 1..Len(gs) :
         RatLeq(gs[b].mean_validation_score, gs[j].mean_validation_score)
    /\ \A j \in 1..(b - 1) :
         RatLess(gs[b].mean_validation_score, gs[j].mean_validation_score)

\* sorted(grid_scores, key=mean_validation_score, reverse=True)[0]: the sort
\* is stable, so among equal scores the earliest grid point comes first
BestIndex(gs) ==
  CHOOSE b \in 1..Len(gs) :
    /\ \A j \in 1..Len(gs) :
         RatLeq(gs[j].mean_validation_score, gs[b].mean_validation_score)
    /\ \A j \in 1..(b - 1) :
         RatLess(gs[j].mean_validation_score, gs[b].mean_validation_score)

\* the aggregation that ends fit(), then best_N = best_score_ and print.
\* (refit=True then fits the winner on all rows, which hold both classes
\* whenever every fold did, so it cannot raise here.)
SelectBest ==
  /\ pc = "select"
  /\ LET gs == GridScores(out, NumFolds)
         best == gs[BestIndex(gs)]
     IN  /\ fitted' = Refitted(variant, BestIndex(gs))
         /\ grid_scores' = [grid_scores EXCEPT ![variant] = gs]
         /\ best_params' = [best_params EXCEPT ![variant] = <<best.parameters>>]
         /\ best_score' = [best_score EXCEPT ![variant] = <<best.mean_validation_score>>]
         /\ stdout' = Append(stdout, [cell |-> "print", variant |-> variant,
                                      value |-> best.mean_validation_score])
  /\ out' = <<>>
  /\ pc' = "show"
  /\ UNCHANGED <<columns, target, seed, n_folds, X, Y, kfolds, variant, gi, fi,
                 results, imported, error>>

\* cells 4, 6, 8: display best_estimator_, then on to the cell of search
\* `nxt`, or to the last cell when nxt is 0
ShowBestThen(nxt) ==
  /\ pc = "show"
  /\ stdout' = Append(stdout, [cell |-> "display", variant |-> variant,
                               value |-> best_params[variant][1]])
  /\ IF nxt # 0
     THEN /\ variant' = nxt
          /\ gi' = 1
          /\ fi' = 1
          /\ pc' = "search"
     ELSE /\ pc' = "report"
          /\ UNCHANGED <<variant, gi, fi>>
  /\ UNCHANGED <<columns, target, seed, n_folds, X, Y, kfolds, out, grid_scores,
                 best_score, best_params, results, fitted, imported, error>>

\* the cells in the order of the notebook
ShowBest == ShowBestThen(IF variant < 3 THEN variant + 1 ELSE 0)

\* the results listed in another order
ResultsArraySwapped(b1, b2, b3) == <<b2, b1, b3>>

\* cell 9: results = np.array([best_1, best_2, best_3])
ResultsArray(b1, b2, b3) == <<b1, b2, b3>>

Report ==
  /\ pc = "report"
  /\ results' = ResultsArray(best_score[1][1], best_score[2][1], best_score[3][1])
  /\ pc' = "done"
  /\ UNCHANGED <<columns, target, seed, n_folds, X, Y, kfolds, variant, gi, fi,
                 out, grid_scores, best_score, best_params, stdout, fitted,
                 imported, error>>

Next ==
  \/ Prep
  \/ FitAndScore
  \/ SelectBest
  \/ ShowBest
  \/ Report

Spec == Init /\ [][Next]_vars

\* ------------------------------------------- KFold over its whole domain
\* Cell 2 run for every row count and every n_folds argument, valid or not.
InitFold ==
  \E n \in 0..MaxRows, k \in 0..MaxFoldArg :
    InitWith([cols |-> AllColumns, tgt |-> [i \in Rows(n) |-> i % 2]], 0, k)

NextFold == Prep

SpecFold == InitFold /\ [][NextFold]_vars

\* ------------------------------------------- ten rows, two balanced classes
\* The whole notebook on every row order of five rows of each class.
InitScenario ==
  \E t \in [Rows(10) -> {0, 1}], s \in 0..MaxSeed :
    /\ Cardinality({i \in Rows(10) : t[i] = 1}) = 5
    /\ InitWith([cols |-> AllColumns, tgt |-> t], s, NFolds)

SpecScenario == InitScenario /\ [][Next]_vars

\* ------------------------------------------- the search cells in any order
\* A notebook's cells can be run in any order, one cell at a time.  Cells 1
\* and 2 first, then the three search cells (each followed by its display
\* cell) in whatever order, then the last cell.
InitOrder ==
  \E t \in [Rows(MaxRows) -> {0, 1}], s \in 0..MaxSeed :
    InitWith([cols |-> AllColumns, tgt |-> t], s, NFolds)

ShowAnyOrder ==
  IF \A v \in Variants : best_score[v] # <<>>
  THEN ShowBestThen(0)
  ELSE \E v \in Variants : best_score[v] = <<>> /\ ShowBestThen(v)

NextOrder ==
  \/ \E v \in Variants : PrepThen(v)
  \/ FitAndScore
  \/ SelectBest
  \/ ShowAnyOrder
  \/ Report

SpecOrder == InitOrder /\ [][NextOrder]_vars

\* ------------------------------------------------------------------ claims
NumRows == Cardinality(DOMAIN target)

\* C1: for every row count n and fold count k with 2 <= k <= n, cell 2 builds
\* k folds whose validation groups partition the rows 0..n-1 (every row in
\* exactly one group), each fold's training set being the rows outside its
\* validation group.
C1_FoldsPartition ==
  (pc # "prep" /\ 2 <= n_folds /\ n_folds <= NumRows) =>
     /\ error = ""
     /\ Len(kfolds) = n_folds
     /\ \A i \in Rows(NumRows) :
          Cardinality({f \in 1..Len(kfolds) : i \in kfolds[f].test}) = 1
     /\ \A f \in 1..Len(kfolds) :
          /\ kfolds[f].test \subseteq Rows(NumRows)
          /\ kfolds[f].train = Rows(NumRows) \ kfolds[f].test

\* folds built for a fold count other than the notebook's, with rows left
\* over after the even split
C1_Witness ==
  /\ pc = "search"
  /\ n_folds = 3
  /\ NumRows = 8
  /\ Len(kfolds) = 3

Searched(v) == best_score[v] # <<>>

\* the aggregated cross-validated score of one grid point, from its fold
\* scores: the mean over the folds, each weighing as its validation rows
RECURSIVE FoldScoreSum(_, _)
FoldScoreSum(cv, f) ==
  IF f = 0 THEN Zero
  ELSE RatAdd(RatTimes(cv[f], Cardinality(kfolds[f].test)), FoldScoreSum(cv, f - 1))

AggregatedScore(e) ==
  RatOver(FoldScoreSum(e.cv_validation_scores, Len(e.cv_validation_scores)), NumRows)

\* C2: the best score each finished search reports is at least the aggregated
\* cross-validated score of every grid point the search evaluated, and it is
\* the score of the reported winning combination.
C2_BestIsMaximum ==
  \A v \in Variants :
    Searched(v) =>
      /\ \A g \in 1..Len(grid_scores[v]) :
           RatLeq(AggregatedScore(grid_scores[v][g]), best_score[v][1])
      /\ \E g \in 1..Len(grid_scores[v]) :
           /\ grid_scores[v][g].parameters = best_params[v][1]
           /\ AggregatedScore(grid_scores[v][g]) = best_score[v][1]

\* all three searches done, and in each the winner is neither the first grid
\* point nor the only score
C2_Witness ==
  /\ pc = "done"
  /\ \A v \in Variants :
       /\ best_params[v][1] # grid_scores[v][1].parameters
       /\ \E g \in 1..Len(grid_scores[v]) :
            RatLess(grid_scores[v][g].mean_validation_score, best_score[v][1])

\* the number of combinations of a grid: the product of its lists' lengths
RECURSIVE ListLengthProduct(_)
ListLengthProduct(grid) ==
  IF grid = <<>> THEN 1 ELSE Len(Head(grid)[2]) * ListLengthProduct(Tail(grid))

\* p gives every key of the grid one value of that key's list, and has no
\* other key
IsCombinationOf(p, grid) ==
  /\ Len(p.keys) = Len(grid)
  /\ Len(p.vals) = Len(grid)
  /\ \A j \in 1..Len(grid) :
       \E m \in 1..Len(p.keys) :
         /\ p.keys[m] = grid[j][1]
         /\ \E c \in 1..Len(grid[j][2]) : p.vals[m] = grid[j][2][c]

\* C3: the combinations a search evaluates are exactly the cartesian product
\* of its grid's value lists: the fits so far run fold after fold, the first
\* fold's fit being of a combination of the grid and the combination
\* changing only after its last fold, and a
\* finished search holds every combination once, each with one score per
\* fold, before its winner is set.
C3_GridIsCartesianProduct ==
  /\ pc = "search" =>
       /\ Len(out) = (gi - 1) * NumFolds + (fi - 1)
       /\ \A j \in 1..Len(out) :
            /\ (j - 1) % NumFolds = 0 =>
                 IsCombinationOf(out[j].parameters, ParamGridOf(variant))
            /\ out[j].n_test_samples = Cardinality(kfolds[((j - 1) % NumFolds) + 1].test)
            /\ j > 1 =>
                 ((out[j].parameters = out[j - 1].parameters)
                    <=> ((j - 1) \div NumFolds = (j - 2) \div NumFolds))
  /\ \A v \in Variants :
       Searched(v) =>
         /\ Len(grid_scores[v]) = ListLengthProduct(ParamGridOf(v))
         /\ \A g \in 1..Len(grid_scores[v]) :
              /\ IsCombinationOf(grid_scores[v][g].parameters, ParamGridOf(v))
              /\ Len(grid_scores[v][g].cv_validation_scores) = NumFolds
              /\ \A m \in 1..Len(grid_scores[v]) :
                   grid_scores[v][g].parameters = grid_scores[v][m].parameters => g = m

\* the three searches finished, each over its whole grid
C3_Witness ==
  /\ Searched(1) /\ Searched(2) /\ Searched(3)
  /\ Len(grid_scores[1]) = 12
  /\ Len(grid_scores[2]) = 12
  /\ Len(grid_scores[3]) > Len(grid_scores[1])

\* C9: the results array lists the best scores in the order baseline, scaled,
\* polynomial, each the top score of its own search, and exists only once all
\* three searches are over; the cells print and display in the same order.
C9_ReportOrder ==
  /\ results # <<>> =>
       /\ pc = "done"
       /\ Len(results) = 3
       /\ \A v \in Variants :
            /\ Searched(v)
            /\ results[v] = best_score[v][1]
            /\ \A g \in 1..Len(grid_scores[v]) :
                 RatLeq(AggregatedScore(grid_scores[v][g]), results[v])
       /\ [j \in 1..Len(stdout) |-> stdout[j].variant] = <<1, 1, 2, 2, 3, 3>>
  /\ \A j \in 1..Len(stdout) :
       /\ stdout[j].variant = (j + 1) \div 2
       /\ stdout[j].cell = IF j % 2 = 1 THEN "print" ELSE "display"
       /\ stdout[j].value = IF j % 2 = 1 THEN best_score[(j + 1) \div 2][1]
                                         ELSE best_params[(j + 1) \div 2][1]

\* a finished run whose three best scores all differ
C9_Witness ==
  /\ pc = "done"
  /\ results[1] # results[2]
  /\ results[2] # results[3]
  /\ results[1] # results[3]

FoldsBuilt == kfolds # <<>>

\* fold f's validation rows hold a single class
DegenerateFold(f) == Cardinality(Classes(kfolds[f].test)) = 1

SomeDegenerateFold == FoldsBuilt /\ \E f \in 1..NumFolds : DegenerateFold(f)

FirstDegenerateFold ==
  CHOOSE f \in 1..NumFolds :
    DegenerateFold(f) /\ \A h \in 1..(f - 1) : ~ DegenerateFold(h)

BadColumns == ~ ((Range(dropvar_list) \cup {TargetColumn}) \subseteq columns)

BadFoldCount == ~ (1 < n_folds /\ n_folds <= NumRows)

NotBinary == {target[i] : i \in DOMAIN target} # {0, 1}

DegreeOneAllTerms ==
  /\ fitted # <<>>
  /\ fitted.variant = 3
  /\ ParamOr(GridOf(3)[fitted.grid_point], "polyfeat__degree", 2) = 1
  /\ ParamOr(GridOf(3)[fitted.grid_point], "polyfeat__interaction_only", TRUE) = FALSE

\* C11 as the specification words it: at degree 1 with interaction_only
\* False the polynomial stage hands on exactly the columns it received.
C11_Original ==
  DegreeOneAllTerms =>
     fitted.stages[1].features_out = fitted.stages[1].features_in

\* C11: at degree 1 with interaction_only False the polynomial stage of the
\* polynomial pipeline receives the columns of X and hands on one column
\* more than it received: the constant bias column first (include_bias is
\* left at its default, True), then every column of X, unaltered and in the
\* order of X; no other column is added and none is removed.
C11_DegreeOneAddsBias ==
  DegreeOneAllTerms =>
     /\ fitted.stages[1].name = "polyfeat"
     /\ fitted.stages[1].features_in = [j \in 1..Len(X.columns) |-> <<X.columns[j]>>]
     /\ Len(fitted.stages[1].features_out) = Len(X.columns) + 1
     /\ fitted.stages[1].features_out[1] = <<>>
     /\ \A j \in 1..Len(X.columns) :
          fitted.stages[1].features_out[j + 1] = <<X.columns[j]>>

\* a fold of the polynomial search fitted at degree 1, interaction_only
\* False, on the six feature columns
C11_Witness ==
  /\ DegreeOneAllTerms
  /\ fitted.fold >= 1
  /\ X.columns = <<"revenue", "outcalls", "months", "eqpdays", "webcap", "retcalls">>
  /\ Len(fitted.stages[1].features_out) = 7

\* the estimator fitted last is a pipeline fitted for one fold of a search
PipelineFoldFit ==
  /\ fitted # <<>>
  /\ fitted.variant \in {2, 3}
  /\ fitted.fold >= 1

\* C12: in the scaled and polynomial pipelines, for every grid point and
\* every fold, each transformation stage before the classifier is fitted on
\* exactly the rows of that fold's training portion, never on a row of the
\* fold's validation group; the stage so fitted is the one that transforms
\* the validation rows; and only the last stage, the classifier, produces
\* the decision values that are scored, one for each validation row.
C12_StagesFitOnTrainingRows ==
  PipelineFoldFit =>
     LET st == fitted.stages
         train == kfolds[fitted.fold].train
         test == kfolds[fitted.fold].test
     IN  /\ fitted.grid_point \in 1..Len(GridOf(fitted.variant))
         /\ Len(st) = IF fitted.variant = 2 THEN 2 ELSE 3
         /\ st[Len(st)].name = "lr"
         /\ \A k \in 1..Len(st) :
              /\ st[k].fit_rows = train
              /\ st[k].fit_rows \cap test = {}
         /\ \A k \in 1..(Len(st) - 1) :
              /\ st[k].name \in {"polyfeat", "scaler"}
              /\ st[k].transformed = test
              /\ st[k].predicted = {}
         /\ st[Len(st)].predicted = test
         /\ st[Len(st)].transformed = {}
         /\ out # <<>>
         /\ out[Len(out)].n_test_samples = Cardinality(st[Len(st)].predicted)

\* the polynomial pipeline fitted for a middle fold, at the last grid point
C12_Witness ==
  /\ PipelineFoldFit
  /\ fitted.variant = 3
  /\ fitted.fold = 2
  /\ fitted.grid_point = Len(GridOf(3))
  /\ fitted.stages[2].name = "scaler"
  /\ fitted.stages[2].transformed # {}

\* where the dataset's file lists column c
PlaceInFile(c) == CHOOSE a \in 1..Len(ColumnOrder) : ColumnOrder[a] = c

\* C13: cell 2, on a dataset that has the drop-list columns and 'churndep',
\* leaves a feature table X whose columns are exactly the dataset's columns
\* minus the five drop-list columns and minus 'churndep', in the dataset's
\* order, and a target vector Y that
\* is the 'churndep' column over the same rows in the same order as X (row i
\* of Y is the label of row i of the dataset); no row is added or removed.
C13_FeatureTargetSeparation ==
  (pc # "prep" /\ ~ BadColumns) =>
     /\ Range(X.columns) =
          {c \in columns : c \notin {"incalls", "creditcd", "marryyes", "travel",
                                      "pcown", "churndep"}}
     /\ Len(X.columns) = Cardinality(columns) - 6
     /\ \A j \in 1..(Len(X.columns) - 1) :
          PlaceInFile(X.columns[j]) < PlaceInFile(X.columns[j + 1])
     /\ X.index = Rows(Cardinality(DOMAIN target))
     /\ DOMAIN Y = X.index
     /\ \A i \in X.index : Y[i] = target[i]

\* the separation done on a full table of eight rows holding both classes
C13_Witness ==
  /\ pc = "search"
  /\ X.columns = <<"revenue", "outcalls", "months", "eqpdays", "webcap", "retcalls">>
  /\ X.index = 0..7
  /\ Y[0] = 1
  /\ Y[1] = 0
  /\ Y[7] = 1

\* the fits of grid point g of search v computed on their own from Y and
\* kfolds, for the folds 1..f
RECURSIVE AloneFits(_, _, _)
AloneFits(v, g, f) ==
  IF f = 0 THEN <<>>
  ELSE Append(AloneFits(v, g, f - 1), FitAndScoreResult(v, g, f))

\* X, Y and kfolds are, at every later moment, what cell 2 made them
InputsKept ==
  FoldsBuilt =>
     /\ Range(X.columns) = columns \ (Range(dropvar_list) \cup {TargetColumn})
     /\ X.index = Rows(NumRows)
     /\ Y = target
     /\ Len(kfolds) = n_folds
     /\ \A f \in 1..Len(kfolds) :
          /\ kfolds[f].test = TestIndices(NumRows, n_folds, f)
          /\ kfolds[f].train = Rows(NumRows) \ kfolds[f].test

\* each finished search holds, whatever ran before it and after it, the
\* scores its grid points get when computed on their own, and reports the
\* first maximum of them
OrderFreeResults ==
  pc \in {"show", "done"} =>
     \A v \in Variants :
        Searched(v) =>
           /\ Len(grid_scores[v]) = Len(GridOf(v))
           /\ \A g \in 1..Len(GridOf(v)) :
                grid_scores[v][g] = GridScores(AloneFits(v, g, NumFolds), NumFolds)[1]
           /\ best_score[v] =
                <<grid_scores[v][BestIndex(grid_scores[v])].mean_validation_score>>
           /\ best_params[v] =
                <<grid_scores[v][BestIndex(grid_scores[v])].parameters>>

====
